---------------------------- MODULE Spec2Model ----------------------------
(***************************************************************************)
(* A model of the Y-Note / MTN Mobile Money payment service:               *)
(*   src/src/services/ynote.service.ts  (service, webhook and payment      *)
(*                                       routes)                           *)
(*   src/src/middleware/auth.ts         (authenticateToken, requireAdmin)  *)
(*   src/unnamed/part_000               (payment.types)                    *)
(*                                                                         *)
(* Every request is a process that runs its handler one await at a time,   *)
(* so that handlers interleave exactly where the event loop lets them.     *)
(* Strings the code inspects character by character (phone numbers, error  *)
(* messages) are sequences of one-character strings.                       *)
(***************************************************************************)
EXTENDS Integers, Sequences, FiniteSets, Bags, TLC

VARIABLES
    campaigns,      \* collection "campaigns": campaign id -> document
    transactions,   \* collection "mtn_transactions": reference id -> document
    notifications,  \* collection "notifications": a bag of documents
    refunds,        \* collection "mtn_refunds": a bag of documents
    cachedToken,    \* the process-wide OAuth token slot
    now,            \* Date.now(), in milliseconds
    nextRef,        \* number of uuidv4() values drawn so far
    pc,             \* per request: the await it is suspended at
    req,            \* per request: the HTTP request being served
    loc,            \* per request: the handler's local variables
    res,            \* per request: the HTTP response (http = 0 while running)
    served,         \* number of requests accepted so far
    arg,            \* argument of the pure function under study
    out             \* its result ("none" before it is applied)

vars == <<campaigns, transactions, notifications, refunds, cachedToken, now,
          nextRef, pc, req, loc, res, served, arg, out>>

store == <<campaigns, transactions, notifications, refunds>>

\* what no request handler changes
aside == <<now, arg, out>>

-----------------------------------------------------------------------------
(* Bounds of the model *)

\* concurrent requests in flight
NProcs == 2
\* requests served in one behaviour
MaxRequests == 3
\* uuidv4() values drawn in one behaviour
MaxRefs == 1
\* steps of the clock in one behaviour
MaxTicks == 3
\* digits of a phone number after its carrier prefix
MaxTail == 8

Procs == 1..NProcs

-----------------------------------------------------------------------------
(* JavaScript values *)

Undefined == "undefined"

\* truthiness of a string-valued field
Truthy(s) == s # Undefined /\ s # ""

\* a || b on string-valued fields
OrElse(a, b) == IF Truthy(a) THEN a ELSE b

\* identifiers: uuidv4() values, vendor message ids, vendor financial ids
NoId == <<"none", 0>>
Uuid(n) == <<"uuid", n>>
VendorMessageId(n) == <<"msg", n>>
FinancialId(n) == <<"fin", n>>
HasId(id) == id # NoId
IdOrElse(a, b) == IF HasId(a) THEN a ELSE b

\* vendor codes keep their JavaScript type: 200 and "200" are different values
NoCode == <<"undefined", 0>>
NumCode(n) == <<"number", n>>
StrCode(n) == <<"string", n>>
TruthyCode(c) == c # NoCode /\ c # NumCode(0)
CodeOrElse(a, b) == IF TruthyCode(a) THEN a ELSE b

-----------------------------------------------------------------------------
(* Strings as character sequences *)

StartsWith(s, prefix) ==
    /\ Len(s) >= Len(prefix)
    /\ SubSeq(s, 1, Len(prefix)) = prefix

\* s.substring(n)
Substring(s, n) == SubSeq(s, n + 1, Len(s))

\* s.includes(pattern)
Includes(s, pattern) ==
    \E i \in 1..(Len(s) - Len(pattern) + 1) :
        SubSeq(s, i, i + Len(pattern) - 1) = pattern

Digits == {"0", "1", "2", "3", "4", "5", "6", "7", "8", "9"}

\* phone.replace(/\D/g, "")
StripNonDigits(s) == SelectSeq(s, LAMBDA ch : ch \in Digits)

-----------------------------------------------------------------------------
(* Error messages (accents dropped) and the substrings the routes look for *)

\* "Parametres manquants: campaignId, amount, phoneNumber requis"
MSG_PARAMS ==
    <<"P","a","r","a","m","e","t","r","e","s"," ","m","a","n","q","u","a","n",
      "t","s",":"," ","c","a","m","p","a","i","g","n","I","d",","," ","a","m",
      "o","u","n","t",","," ","p","h","o","n","e","N","u","m","b","e","r"," ",
      "r","e","q","u","i","s">>

\* "Le montant minimum est de 100 FCFA"
MSG_MIN_AMOUNT ==
    <<"L","e"," ","m","o","n","t","a","n","t"," ","m","i","n","i","m","u","m",
      " ","e","s","t"," ","d","e"," ","1","0","0"," ","F","C","F","A">>

\* "Numero trop court"
MSG_TOO_SHORT ==
    <<"N","u","m","e","r","o"," ","t","r","o","p"," ","c","o","u","r","t">>

\* "Ce n'est pas un numero MTN Cameroun"
MSG_NOT_MTN ==
    <<"C","e"," ","n","'","e","s","t"," ","p","a","s"," ","u","n"," ","n","u",
      "m","e","r","o"," ","M","T","N"," ","C","a","m","e","r","o","u","n">>

\* "Campagne introuvable"
MSG_CAMPAIGN_NOT_FOUND ==
    <<"C","a","m","p","a","g","n","e"," ","i","n","t","r","o","u","v","a","b",
      "l","e">>

\* "Cette campagne ne vous appartient pas"
MSG_NOT_OWNER ==
    <<"C","e","t","t","e"," ","c","a","m","p","a","g","n","e"," ","n","e"," ",
      "v","o","u","s"," ","a","p","p","a","r","t","i","e","n","t"," ","p","a",
      "s">>

\* "Cette campagne n'est pas en attente de paiement"
MSG_NOT_PENDING ==
    <<"C","e","t","t","e"," ","c","a","m","p","a","g","n","e"," ","n","'","e",
      "s","t"," ","p","a","s"," ","e","n"," ","a","t","t","e","n","t","e"," ",
      "d","e"," ","p","a","i","e","m","e","n","t">>

\* "Erreur d'authentification Y-Note: Unknown"
MSG_AUTH_YNOTE ==
    <<"E","r","r","e","u","r"," ","d","'","a","u","t","h","e","n","t","i","f",
      "i","c","a","t","i","o","n"," ","Y","-","N","o","t","e",":"," ","U","n",
      "k","n","o","w","n">>

\* "Erreur Y-Note ("
MSG_YNOTE_PREFIX ==
    <<"E","r","r","e","u","r"," ","Y","-","N","o","t","e"," ","(">>

\* "): "
MSG_YNOTE_SEP ==
    <<")",":"," ">>

\* "Erreur inconnue"
MSG_UNKNOWN ==
    <<"E","r","r","e","u","r"," ","i","n","c","o","n","n","u","e">>

\* "referenceId requis"
MSG_REF_REQUIRED ==
    <<"r","e","f","e","r","e","n","c","e","I","d"," ","r","e","q","u","i","s">>

\* "referenceId manquant dans le callback"
MSG_CB_REF_MISSING ==
    <<"r","e","f","e","r","e","n","c","e","I","d"," ","m","a","n","q","u","a",
      "n","t"," ","d","a","n","s"," ","l","e"," ","c","a","l","l","b","a","c",
      "k">>

\* "Transaction introuvable"
MSG_TX_NOT_FOUND ==
    <<"T","r","a","n","s","a","c","t","i","o","n"," ","i","n","t","r","o","u",
      "v","a","b","l","e">>

\* "Parametres manquants pour le remboursement"
MSG_REFUND_PARAMS ==
    <<"P","a","r","a","m","e","t","r","e","s"," ","m","a","n","q","u","a","n",
      "t","s"," ","p","o","u","r"," ","l","e"," ","r","e","m","b","o","u","r",
      "s","e","m","e","n","t">>

\* "Seuls les administrateurs peuvent effectuer des remboursements"
MSG_ADMIN_ONLY ==
    <<"S","e","u","l","s"," ","l","e","s"," ","a","d","m","i","n","i","s","t",
      "r","a","t","e","u","r","s"," ","p","e","u","v","e","n","t"," ","e","f",
      "f","e","c","t","u","e","r"," ","d","e","s"," ","r","e","m","b","o","u",
      "r","s","e","m","e","n","t","s">>

\* "Request failed with status code 500"
MSG_NETWORK ==
    <<"R","e","q","u","e","s","t"," ","f","a","i","l","e","d"," ","w","i","t",
      "h"," ","s","t","a","t","u","s"," ","c","o","d","e"," ","5","0","0">>

\* "UNAVAILABLE: store write failed"
MSG_STORE ==
    <<"U","N","A","V","A","I","L","A","B","L","E",":"," ","s","t","o","r","e",
      " ","w","r","i","t","e"," ","f","a","i","l","e","d">>

\* "Solde insuffisant"
VENDOR_MSG_BALANCE ==
    <<"S","o","l","d","e"," ","i","n","s","u","f","f","i","s","a","n","t">>

\* "Compte introuvable"
VENDOR_MSG_ACCOUNT ==
    <<"C","o","m","p","t","e"," ","i","n","t","r","o","u","v","a","b","l","e">>

\* "introuvable"
PAT_INTROUVABLE ==
    <<"i","n","t","r","o","u","v","a","b","l","e">>

\* "appartient pas"
PAT_APPARTIENT_PAS ==
    <<"a","p","p","a","r","t","i","e","n","t"," ","p","a","s">>

\* "attente de paiement"
PAT_ATTENTE ==
    <<"a","t","t","e","n","t","e"," ","d","e"," ","p","a","i","e","m","e","n",
      "t">>

\* "manquant"
PAT_MANQUANT ==
    <<"m","a","n","q","u","a","n","t">>

\* "administrateurs"
PAT_ADMINISTRATEURS ==
    <<"a","d","m","i","n","i","s","t","r","a","t","e","u","r","s">>

-----------------------------------------------------------------------------
(* Phone numbers *)

COUNTRY_CODE == <<"2", "3", "7">>

\* the list of line 176, had it also held 69
mtnPrefixesWith69 == {<<"6", "5">>, <<"6", "7">>, <<"6", "8">>, <<"6", "9">>}

mtnPrefixes == {<<"6", "5">>, <<"6", "7">>, <<"6", "8">>}

\* formatPhoneNumber without the test of line 146
formatPhoneNumberAlwaysPrefixing(phone) ==
    LET cleaned == StripNonDigits(phone)
        noTrunk == IF StartsWith(cleaned, <<"0">>) THEN Substring(cleaned, 1) ELSE cleaned
    IN  COUNTRY_CODE \o noTrunk

formatPhoneNumber(phone) ==
    LET cleaned == StripNonDigits(phone)
        noTrunk == IF StartsWith(cleaned, <<"0">>) THEN Substring(cleaned, 1) ELSE cleaned
    IN  IF ~StartsWith(noTrunk, COUNTRY_CODE) THEN COUNTRY_CODE \o noTrunk ELSE noTrunk

MinPhoneDigits == 9

validateMtnPhoneNumber(phone) ==
    LET cleaned == StripNonDigits(phone)
        noCode == IF StartsWith(cleaned, COUNTRY_CODE) THEN Substring(cleaned, 3) ELSE cleaned
        numberToCheck == IF StartsWith(noCode, <<"0">>) THEN Substring(noCode, 1) ELSE noCode
        prefix == SubSeq(numberToCheck, 1, IF Len(numberToCheck) < 2 THEN Len(numberToCheck) ELSE 2)
    IN  IF Len(cleaned) < MinPhoneDigits
        THEN [isValid |-> FALSE, error |-> MSG_TOO_SHORT]
        ELSE IF prefix \notin mtnPrefixes
        THEN [isValid |-> FALSE, error |-> MSG_NOT_MTN]
        ELSE [isValid |-> TRUE, error |-> <<>>]

-----------------------------------------------------------------------------
(* Status normalisation *)

PaymentStatus == {"PENDING", "SUCCESSFUL", "FAILED"}

\* normalizeYnoteStatus, had line 336 not listed COMPLETED
normalizeYnoteStatusWithoutCompleted(ynoteResponse) ==
    LET status == OrElse(ynoteResponse.status,
                         OrElse(ynoteResponse.transactionStatus, "PENDING"))
        normalizedStatus ==
            IF status = "SUCCESSFUL" \/ status = "SUCCESS"
            THEN "SUCCESSFUL"
            ELSE IF status = "FAILED" \/ status = "REJECTED"
                    \/ status = "CANCELLED" \/ status = "EXPIRED"
            THEN "FAILED"
            ELSE "PENDING"
    IN  [status |-> normalizedStatus,
         amount |-> IF ynoteResponse.amount # 0 THEN ynoteResponse.amount ELSE 0,
         transactionId |-> IdOrElse(ynoteResponse.transactionId,
                                    ynoteResponse.financialTransactionId)]

\* Vendor amounts are whole numbers of FCFA; 0 stands for an absent amount,
\* which the code turns into undefined here and into 0 where it is used.
normalizeYnoteStatus(ynoteResponse) ==
    LET status == OrElse(ynoteResponse.status,
                         OrElse(ynoteResponse.transactionStatus, "PENDING"))
        normalizedStatus ==
            IF status = "SUCCESSFUL" \/ status = "SUCCESS" \/ status = "COMPLETED"
            THEN "SUCCESSFUL"
            ELSE IF status = "FAILED" \/ status = "REJECTED"
                    \/ status = "CANCELLED" \/ status = "EXPIRED"
            THEN "FAILED"
            ELSE "PENDING"
    IN  [status |-> normalizedStatus,
         amount |-> IF ynoteResponse.amount # 0 THEN ynoteResponse.amount ELSE 0,
         transactionId |-> IdOrElse(ynoteResponse.transactionId,
                                    ynoteResponse.financialTransactionId)]

-----------------------------------------------------------------------------
(* The documents this service reads but never writes *)

Campaigns == {"c1", "c2"}

\* an id under which collection "campaigns" holds no document
MissingCampaign == "c0"

Users == {"u1", "u2"}

\* campaigns/<id>.userId
Owner == [c \in Campaigns |-> IF c = "c1" THEN "u1" ELSE "u2"]

\* users/<uid>.role
users ==
    [u \in Users \cup {"u3"} |->
        CASE u = "u2" -> [role |-> "admin"]
          [] u = "u3" -> [role |-> "both"]
          [] OTHER    -> [role |-> "user"]]

\* who may ask for a refund: the advertisers and the staff
Requesters == DOMAIN users

CampaignStatus ==
    {"draft", "pending_validation", "pending_payment", "scheduled",
     "active", "paused", "completed", "rejected"}

\* the statuses the campaigns are handed over in: c1 awaits its payment, c2 may
\* still be a draft
InitStatuses ==
    {[c \in Campaigns |-> IF c = "c1" THEN "pending_payment" ELSE s] :
        s \in {"pending_payment", "draft"}}

\* src/config/env: all four Y-Note credentials are configured
YNOTE_CREDENTIALS ==
    [clientId |-> TRUE, clientSecret |-> TRUE, customerKey |-> TRUE, subscriptionKey |-> TRUE]

validateCredentials ==
    /\ YNOTE_CREDENTIALS.clientId /\ YNOTE_CREDENTIALS.clientSecret
    /\ YNOTE_CREDENTIALS.customerKey /\ YNOTE_CREDENTIALS.subscriptionKey

-----------------------------------------------------------------------------
(* State after start-up *)

NewCampaign(c, s) ==
    [status |-> s, userId |-> Owner[c],
     paymentMethod |-> Undefined, paymentAmount |-> 0, paidAt |-> 0,
     mtnReferenceId |-> NoId, ynoteMessageId |-> NoId,
     mtnPaymentStatus |-> Undefined, mtnTransactionId |-> NoId,
     updatedAt |-> 0, updatedBy |-> Undefined]

NoToken == [present |-> FALSE, token |-> Undefined, expiresAt |-> 0]

NoRequest == [op |-> "none"]

\* a document field (or a local) that holds no payload yet
Absent == [absent |-> TRUE]

NoLocals ==
    [now |-> 0, normalizedStatus |-> Absent, ynoteMessageId |-> NoId,
     accessToken |-> Undefined, campaignData |-> [exists |-> FALSE],
     referenceId |-> NoId, paymentResponse |-> Absent,
     transactionData |-> [exists |-> FALSE]]

Running == [error |-> <<>>, referenceId |-> NoId, http |-> 0]

StoreInit ==
    /\ campaigns \in {[c \in Campaigns |-> NewCampaign(c, f[c])] : f \in InitStatuses}
    /\ transactions = <<>>
    /\ notifications = EmptyBag
    /\ refunds = EmptyBag
    /\ cachedToken = NoToken
    /\ now = 0
    /\ nextRef = 0
    /\ pc = [p \in Procs |-> "idle"]
    /\ req = [p \in Procs |-> NoRequest]
    /\ loc = [p \in Procs |-> NoLocals]
    /\ res = [p \in Procs |-> Running]
    /\ served = 0

Init ==
    /\ StoreInit
    /\ arg = "none"
    /\ out = "none"

-----------------------------------------------------------------------------
(* HTTP layer: how each route answers an exception, by message substring *)

\* catch block of router.post("/initiate")
InitiateErrorStatus(message) ==
    IF Includes(message, PAT_INTROUVABLE) THEN 404
    ELSE IF Includes(message, PAT_APPARTIENT_PAS) THEN 403
    ELSE IF Includes(message, PAT_ATTENTE) THEN 400
    ELSE 500

\* catch block of router.post("/status") and router.get("/status/:referenceId")
StatusErrorStatus(message) == 500

\* catch block of router.post("/ynote-callback")
CallbackErrorStatus(message) ==
    IF Includes(message, PAT_INTROUVABLE) THEN 404
    ELSE IF Includes(message, PAT_MANQUANT) THEN 400
    ELSE 500

\* catch block of router.post("/refund")
RefundErrorStatus(message) ==
    IF Includes(message, PAT_ADMINISTRATEURS) THEN 403 ELSE 500

ErrorStatus(op, message) ==
    CASE op = "initiate" -> InitiateErrorStatus(message)
      [] op = "status"   -> StatusErrorStatus(message)
      [] op = "callback" -> CallbackErrorStatus(message)
      [] op = "refund"   -> RefundErrorStatus(message)

\* the route answers; the handler's locals are gone
Respond(p, response) ==
    /\ res' = [res EXCEPT ![p] = response]
    /\ pc' = [pc EXCEPT ![p] = "done"]
    /\ loc' = [loc EXCEPT ![p] = NoLocals]

Reply(p, code, message) ==
    Respond(p, [error |-> message, referenceId |-> NoId, http |-> code])

\* the service is entered and reaches its first await with locals l
Begin(p, label, l) ==
    /\ pc' = [pc EXCEPT ![p] = label]
    /\ loc' = [loc EXCEPT ![p] = l]
    /\ res' = [res EXCEPT ![p] = Running]

\* the handler moves on to its next await with locals l
Goto(p, label, l) ==
    /\ pc' = [pc EXCEPT ![p] = label]
    /\ loc' = [loc EXCEPT ![p] = l]
    /\ UNCHANGED res

\* the service throws and the route's catch block answers
Throw(p, message) == Reply(p, ErrorStatus(req[p].op, message), message)

\* a new request is accepted by a free worker
Accept(p, request) ==
    /\ pc[p] \in {"idle", "done"}
    /\ served < MaxRequests
    /\ served' = served + 1
    /\ req' = [req EXCEPT ![p] = request]

\* a write to the document store succeeds or is refused by the store
StoreOutcomes == {TRUE, FALSE}

\* Timestamp.now() on a campaign document: the number of its next write
Stamp(c) == campaigns[c].updatedAt + 1

-----------------------------------------------------------------------------
(* getAccessToken *)

TOKEN_MARGIN_MS == 60000
DEFAULT_EXPIRES_IN == 3600

AfterToken(p) == IF req[p].op = "initiate" THEN "ip_post" ELSE "st_post"

\* the test of lines 93-97 without its margin of 60 seconds
TokenCheckWithoutMargin(p) ==
    /\ pc[p] = "tok_check"
    /\ IF cachedToken.present /\ cachedToken.expiresAt > now
       THEN Goto(p, AfterToken(p),
                 [loc[p] EXCEPT !.now = now, !.accessToken = cachedToken.token])
       ELSE Goto(p, "tok_fetch", [loc[p] EXCEPT !.now = now])
    /\ UNCHANGED <<store, cachedToken, aside, nextRef, req, served>>

\* lines 93-97: read the clock, use the cached token if it is valid long enough
TokenCheck(p) ==
    /\ pc[p] = "tok_check"
    /\ IF cachedToken.present /\ cachedToken.expiresAt > now + TOKEN_MARGIN_MS
       THEN Goto(p, AfterToken(p),
                 [loc[p] EXCEPT !.now = now, !.accessToken = cachedToken.token])
       ELSE Goto(p, "tok_fetch", [loc[p] EXCEPT !.now = now])
    /\ UNCHANGED <<store, cachedToken, aside, nextRef, req, served>>

\* the assignment of lines 120-123, had it kept the expiry of a token already cached
TokenFetchKeepingExpiry(p, answers) ==
    /\ pc[p] = "tok_fetch"
    /\ \E a \in answers :
         IF a.ok
         THEN /\ cachedToken' =
                    [present |-> TRUE, token |-> a.access_token,
                     expiresAt |->
                        IF cachedToken.present THEN cachedToken.expiresAt
                        ELSE loc[p].now
                           + (IF a.expires_in # 0 THEN a.expires_in
                              ELSE DEFAULT_EXPIRES_IN) * 1000]
              /\ Goto(p, AfterToken(p), [loc[p] EXCEPT !.accessToken = a.access_token])
         ELSE /\ Throw(p, MSG_AUTH_YNOTE)
              /\ UNCHANGED cachedToken
    /\ UNCHANGED <<store, aside, nextRef, req, served>>

\* the assignment of lines 120-123, had it added the margin of line 94 to the expiry
TokenFetchAddingMargin(p, answers) ==
    /\ pc[p] = "tok_fetch"
    /\ \E a \in answers :
         IF a.ok
         THEN /\ cachedToken' =
                    [present |-> TRUE, token |-> a.access_token,
                     expiresAt |-> loc[p].now + TOKEN_MARGIN_MS
                        + (IF a.expires_in # 0 THEN a.expires_in ELSE DEFAULT_EXPIRES_IN) * 1000]
              /\ Goto(p, AfterToken(p), [loc[p] EXCEPT !.accessToken = a.access_token])
         ELSE /\ Throw(p, MSG_AUTH_YNOTE)
              /\ UNCHANGED cachedToken
    /\ UNCHANGED <<store, aside, nextRef, req, served>>

\* lines 103-129: the token endpoint answers, or the call fails
TokenFetch(p, answers) ==
    /\ pc[p] = "tok_fetch"
    /\ \E a \in answers :
         IF a.ok
         THEN /\ cachedToken' =
                    [present |-> TRUE, token |-> a.access_token,
                     expiresAt |-> loc[p].now
                        + (IF a.expires_in # 0 THEN a.expires_in ELSE DEFAULT_EXPIRES_IN) * 1000]
              /\ Goto(p, AfterToken(p), [loc[p] EXCEPT !.accessToken = a.access_token])
         ELSE /\ Throw(p, MSG_AUTH_YNOTE)
              /\ UNCHANGED cachedToken
    /\ UNCHANGED <<store, aside, nextRef, req, served>>

-----------------------------------------------------------------------------
(* POST /api/payments/initiate -> initiatePayment *)

MIN_AMOUNT == 100

successCodes == {NumCode(200), NumCode(201), StrCode(200), StrCode(201)}

RECURSIVE DecimalText(_)
DecimalText(n) ==
    LET d == <<"0", "1", "2", "3", "4", "5", "6", "7", "8", "9">>
    IN  IF n < 10 THEN <<d[n + 1]>> ELSE DecimalText(n \div 10) \o <<d[(n % 10) + 1]>>

\* `Erreur Y-Note (${errorCode}): ${errorMessage}`
YnoteErrorMessage(errorCode, errorMessage) ==
    MSG_YNOTE_PREFIX \o DecimalText(errorCode[2]) \o MSG_YNOTE_SEP \o errorMessage

\* a || b || c || fallback on message texts ("" is falsy)
FirstText(a, b, c, fallback) ==
    IF a # <<>> THEN a ELSE IF b # <<>> THEN b ELSE IF c # <<>> THEN c ELSE fallback

\* the test of lines 276-278, had successCodes listed the numbers 200 and 201 only
IsVendorErrorNumbersOnly(paymentResponse) ==
    LET errorCode == CodeOrElse(paymentResponse.errorCode, paymentResponse.ErrorCode)
    IN  TruthyCode(errorCode) /\ errorCode \notin {NumCode(200), NumCode(201)}

\* lines 276-278: the answer carries a vendor error code that is not a success code
IsVendorError(paymentResponse) ==
    LET errorCode == CodeOrElse(paymentResponse.errorCode, paymentResponse.ErrorCode)
    IN  TruthyCode(errorCode) /\ errorCode \notin successCodes

\* lines 290-303: the document written to mtn_transactions
NewTransaction(referenceId, ynoteMessageId, body, userId, paymentResponse) ==
    [ynoteResponse |-> paymentResponse,
     status |-> OrElse(paymentResponse.status, "PENDING"),
     amount |-> body.amount,
     financialTransactionId |-> NoId,
     userId |-> userId,
     ynoteMessageId |-> ynoteMessageId,
     referenceId |-> referenceId,
     campaignId |-> body.campaignId,
     phoneNumber |-> formatPhoneNumber(body.phoneNumber),
     ynoteStatusResponse |-> Absent,
     mtnCallbackData |-> Absent]

\* the write of lines 306-311, had it linked the campaign by the id that line 317 returns
LinkCampaignByReturnedId(doc, referenceId, ynoteMessageId, stamp) ==
    [doc EXCEPT !.mtnReferenceId = ynoteMessageId,
                !.ynoteMessageId = ynoteMessageId,
                !.mtnPaymentStatus = "PENDING",
                !.updatedAt = stamp]

\* lines 306-311: the fields written to the campaign
LinkCampaign(doc, referenceId, ynoteMessageId, stamp) ==
    [doc EXCEPT !.mtnReferenceId = referenceId,
                !.ynoteMessageId = ynoteMessageId,
                !.mtnPaymentStatus = "PENDING",
                !.updatedAt = stamp]

\* initiatePayment calls that have yet to draw their reference id
PendingDraws ==
    Cardinality({q \in Procs : pc[q] \in {"ip_campaign_get", "tok_check", "tok_fetch", "ip_post"}
                                 /\ req[q].op = "initiate"})

CanDraw == nextRef + PendingDraws < MaxRefs

\* the request is bound to be refused before a reference id is drawn (a campaign
\* that is not pending_payment never becomes so again)
InitiateRejected(uid, body) ==
    \/ ~Truthy(body.campaignId)
    \/ body.amount < MIN_AMOUNT
    \/ ~validateMtnPhoneNumber(body.phoneNumber).isValid
    \/ body.campaignId \notin DOMAIN campaigns
    \/ /\ body.campaignId \in DOMAIN campaigns
       /\ \/ campaigns[body.campaignId].userId # uid
          \/ campaigns[body.campaignId].status # "pending_payment"

\* authenticateToken, the route's checks, and initiatePayment down to its first await
StartInitiate(p, authed, uid, body) ==
    /\ CanDraw \/ ~authed \/ InitiateRejected(uid, body)
    /\ Accept(p, [op |-> "initiate", body |-> body, uid |-> uid, authed |-> authed])
    /\ IF ~authed
       THEN Reply(p, 401, <<>>)
       ELSE IF ~Truthy(body.campaignId)
       THEN Reply(p, 400, <<>>)
       ELSE IF body.amount = 0 \/ body.amount < MIN_AMOUNT
       THEN Reply(p, 400, MSG_MIN_AMOUNT)
       ELSE IF body.phoneNumber = <<>>
       THEN Reply(p, 400, <<>>)
       ELSE IF ~validateMtnPhoneNumber(body.phoneNumber).isValid
       THEN Reply(p, 400, validateMtnPhoneNumber(body.phoneNumber).error)
       ELSE IF ~validateCredentials
       THEN Reply(p, 500, <<>>)
       ELSE Begin(p, "ip_campaign_get", NoLocals)
    /\ UNCHANGED <<store, cachedToken, aside, nextRef>>

\* the tests of lines 221-228 without the status test of lines 230-232
CampaignRefusalAnyStatus(id, userId) ==
    IF id \notin DOMAIN campaigns THEN MSG_CAMPAIGN_NOT_FOUND
    ELSE IF campaigns[id].userId # userId THEN MSG_NOT_OWNER
    ELSE <<>>

\* lines 221-232: why the campaign cannot be paid by this user (<<>>: it can)
CampaignRefusal(id, userId) ==
    IF id \notin DOMAIN campaigns THEN MSG_CAMPAIGN_NOT_FOUND
    ELSE IF campaigns[id].userId # userId THEN MSG_NOT_OWNER
    ELSE IF campaigns[id].status # "pending_payment" THEN MSG_NOT_PENDING
    ELSE <<>>

\* lines 218-232: read the campaign, check existence, owner and status
InitiateCampaignGet(p) ==
    /\ pc[p] = "ip_campaign_get"
    /\ LET id == req[p].body.campaignId IN
       IF CampaignRefusal(id, req[p].uid) # <<>>
       THEN Throw(p, CampaignRefusal(id, req[p].uid))
       ELSE Goto(p, "tok_check", [loc[p] EXCEPT !.campaignData = campaigns[id]])
    /\ UNCHANGED <<store, cachedToken, aside, nextRef, req, served>>

\* lines 239-286: draw the reference id, call /webpayment, inspect the answer
InitiatePost(p, answers) ==
    /\ pc[p] = "ip_post"
    /\ nextRef' = nextRef + 1
    /\ \E a \in answers :
         LET referenceId == Uuid(nextRef + 1) IN
         IF ~a.ok
         THEN Throw(p, MSG_NETWORK)
         ELSE IF IsVendorError(a.data)
         THEN Throw(p, YnoteErrorMessage(
                        CodeOrElse(a.data.errorCode, a.data.ErrorCode),
                        FirstText(a.data.ErrorMessage, a.data.body, a.data.message,
                                  MSG_UNKNOWN)))
         ELSE Goto(p, "ip_tx_set",
                   [loc[p] EXCEPT !.referenceId = referenceId,
                                  !.paymentResponse = a.data,
                                  !.ynoteMessageId = IdOrElse(a.data.MessageId, referenceId)])
    /\ UNCHANGED <<store, cachedToken, aside, req, served>>

\* transactionRef.set(...) of lines 289-303, had its failure been swallowed
InitiateTransactionSetUnchecked(p) ==
    /\ pc[p] = "ip_tx_set"
    /\ \E ok \in StoreOutcomes :
         /\ transactions' =
               IF ok
               THEN (loc[p].referenceId :>
                        NewTransaction(loc[p].referenceId, loc[p].ynoteMessageId,
                                       req[p].body, req[p].uid, loc[p].paymentResponse))
                    @@ transactions
               ELSE transactions
         /\ Goto(p, "ip_campaign_update", loc[p])
    /\ UNCHANGED <<campaigns, notifications, refunds, cachedToken, aside, nextRef, req, served>>

\* lines 289-303: transactionRef.set(...)
InitiateTransactionSet(p) ==
    /\ pc[p] = "ip_tx_set"
    /\ \E ok \in StoreOutcomes :
         IF ok
         THEN /\ transactions' =
                    (loc[p].referenceId :>
                        NewTransaction(loc[p].referenceId, loc[p].ynoteMessageId,
                                       req[p].body, req[p].uid, loc[p].paymentResponse))
                    @@ transactions
              /\ Goto(p, "ip_campaign_update", loc[p])
         ELSE /\ Throw(p, MSG_STORE)
              /\ UNCHANGED transactions
    /\ UNCHANGED <<campaigns, notifications, refunds, cachedToken, aside, nextRef, req, served>>

\* lines 306-320: link the campaign to the transaction and answer PENDING
InitiateCampaignUpdate(p) ==
    /\ pc[p] = "ip_campaign_update"
    /\ LET id == req[p].body.campaignId IN
       \E ok \in StoreOutcomes :
         IF ok
         THEN /\ campaigns' = [campaigns EXCEPT ![id] =
                    LinkCampaign(@, loc[p].referenceId, loc[p].ynoteMessageId, Stamp(id))]
              /\ Respond(p, [error |-> <<>>, referenceId |-> loc[p].ynoteMessageId,
                             http |-> 200])
         ELSE /\ Throw(p, MSG_STORE)
              /\ UNCHANGED campaigns
    /\ UNCHANGED <<transactions, notifications, refunds, cachedToken, aside, nextRef, req, served>>

-----------------------------------------------------------------------------
(* POST /api/payments/status -> checkPaymentStatus -> handleSuccessfulPayment *)

\* authenticateToken, the route's check, and checkPaymentStatus down to its first await
StartStatus(p, authed, uid, body) ==
    /\ Accept(p, [op |-> "status", body |-> body, uid |-> uid, authed |-> authed])
    /\ IF ~authed
       THEN Reply(p, 401, <<>>)
       ELSE IF ~HasId(body.referenceId)
       THEN Reply(p, 400, <<>>)
       ELSE IF ~validateCredentials
       THEN Reply(p, 500, <<>>)
       ELSE Begin(p, "tok_check", [NoLocals EXCEPT !.referenceId = body.referenceId])
    /\ UNCHANGED <<store, cachedToken, aside, nextRef>>

\* lines 378-397: call /webpaymentmtn/status and normalise the answer
StatusPost(p, answers) ==
    /\ pc[p] = "st_post"
    /\ \E a \in answers :
         IF a.ok
         THEN Goto(p, "st_tx_get",
                   [loc[p] EXCEPT !.paymentResponse = a.data,
                                  !.normalizedStatus = normalizeYnoteStatus(a.data)])
         ELSE Throw(p, MSG_NETWORK)
    /\ UNCHANGED <<store, cachedToken, aside, nextRef, req, served>>

\* lines 404-408: the fields checkPaymentStatus writes to the transaction
PolledTransaction(row, normalizedStatus, paymentStatus) ==
    [row EXCEPT !.status = normalizedStatus.status,
                !.ynoteStatusResponse = paymentStatus]

\* line 412: the poll hands over to handleSuccessfulPayment
PollSucceeded(normalizedStatus, campaignId) ==
    normalizedStatus.status = "SUCCESSFUL" /\ Truthy(campaignId)

\* the test of lines 443 and 514 without its status comparison
IsPendingPaymentAnyStatus(id) ==
    id \in DOMAIN campaigns

\* lines 443 and 514: the campaign exists and still awaits its payment
IsPendingPayment(id) ==
    id \in DOMAIN campaigns /\ campaigns[id].status = "pending_payment"

\* lines 446-455: the fields handleSuccessfulPayment writes to the campaign
ScheduledByPoll(doc, status, referenceId, userId, stamp) ==
    [doc EXCEPT !.status = "scheduled",
                !.paymentMethod = "mtn",
                !.paymentAmount = status.amount,
                !.paidAt = stamp,
                !.mtnPaymentStatus = "SUCCESSFUL",
                !.mtnTransactionId = IdOrElse(status.transactionId, referenceId),
                !.updatedAt = stamp,
                !.updatedBy = OrElse(userId, doc.userId)]

\* what checkPaymentStatus does once the transaction row is dealt with
AfterStatusTransaction(p) ==
    IF PollSucceeded(loc[p].normalizedStatus, req[p].body.campaignId)
    THEN Goto(p, "st_campaign_get", loc[p])
    ELSE Reply(p, 200, <<>>)

\* lines 400-403: transactionRef.get()
StatusTransactionGet(p) ==
    /\ pc[p] = "st_tx_get"
    /\ IF loc[p].referenceId \in DOMAIN transactions
       THEN Goto(p, "st_tx_update", [loc[p] EXCEPT !.transactionData = [exists |-> TRUE]])
       ELSE AfterStatusTransaction(p)
    /\ UNCHANGED <<store, cachedToken, aside, nextRef, req, served>>

\* lines 404-408: transactionRef.update(...)
StatusTransactionUpdate(p) ==
    /\ pc[p] = "st_tx_update"
    /\ \E ok \in StoreOutcomes :
         IF ok
         THEN /\ transactions' = [transactions EXCEPT ![loc[p].referenceId] =
                    PolledTransaction(@, loc[p].normalizedStatus, loc[p].paymentResponse)]
              /\ AfterStatusTransaction(p)
         ELSE /\ Throw(p, MSG_STORE)
              /\ UNCHANGED transactions
    /\ UNCHANGED <<campaigns, notifications, refunds, cachedToken, aside, nextRef, req, served>>

\* lines 440-443: handleSuccessfulPayment reads the campaign
SuccessCampaignGet(p) ==
    /\ pc[p] = "st_campaign_get"
    /\ LET id == req[p].body.campaignId IN
       IF IsPendingPayment(id)
       THEN Goto(p, "st_campaign_update", [loc[p] EXCEPT !.campaignData = campaigns[id]])
       ELSE Reply(p, 200, <<>>)
    /\ UNCHANGED <<store, cachedToken, aside, nextRef, req, served>>

\* lines 446-455: handleSuccessfulPayment moves the campaign to scheduled
SuccessCampaignUpdate(p) ==
    /\ pc[p] = "st_campaign_update"
    /\ LET id == req[p].body.campaignId IN
       \E ok \in StoreOutcomes :
         IF ok
         THEN /\ campaigns' = [campaigns EXCEPT ![id] =
                    ScheduledByPoll(@, loc[p].normalizedStatus, loc[p].referenceId,
                                    req[p].uid, Stamp(id))]
              /\ Goto(p, "st_notify", loc[p])
         ELSE /\ Throw(p, MSG_STORE)
              /\ UNCHANGED campaigns
    /\ UNCHANGED <<transactions, notifications, refunds, cachedToken, aside, nextRef, req, served>>

Notification(recipientId, campaignId, type) ==
    [campaignId |-> campaignId, recipientId |-> recipientId, type |-> type]

\* lines 460-468: handleSuccessfulPayment notifies the campaign's owner
SuccessNotify(p) ==
    /\ pc[p] = "st_notify"
    /\ \E ok \in StoreOutcomes :
         IF ok
         THEN /\ notifications' = notifications (+) SetToBag({
                    Notification(loc[p].campaignData.userId, req[p].body.campaignId,
                                 "payment_success")})
              /\ Reply(p, 200, <<>>)
         ELSE /\ Throw(p, MSG_STORE)
              /\ UNCHANGED notifications
    /\ UNCHANGED <<campaigns, transactions, refunds, cachedToken, aside, nextRef, req, served>>

-----------------------------------------------------------------------------
(* POST /api/webhooks/ynote-callback -> handleCallback *)

\* lines 476-486: no authentication; the reference id is referenceId, else order_id
StartCallback(p, body) ==
    /\ Accept(p, [op |-> "callback", body |-> body, uid |-> Undefined, authed |-> FALSE])
    /\ LET referenceId == IdOrElse(body.referenceId, body.order_id) IN
       IF ~HasId(referenceId)
       THEN Reply(p, CallbackErrorStatus(MSG_CB_REF_MISSING), MSG_CB_REF_MISSING)
       ELSE Begin(p, "cb_tx_get", [NoLocals EXCEPT !.referenceId = referenceId])
    /\ UNCHANGED <<store, cachedToken, aside, nextRef>>

\* lines 500-505: the fields handleCallback writes to the transaction
CalledBackTransaction(row, callbackData) ==
    [row EXCEPT !.status = callbackData.status,
                !.financialTransactionId = callbackData.financialTransactionId,
                !.mtnCallbackData = callbackData]

\* lines 510 and 539: what handleCallback does next, decided on the status it received
CallbackBranch(status, campaignId) ==
    IF status = "SUCCESSFUL" /\ Truthy(campaignId) THEN "success"
    ELSE IF status = "FAILED" /\ Truthy(campaignId) THEN "failed"
    ELSE "none"

\* lines 515-524: the fields handleCallback writes to a paid campaign
ScheduledByCallback(doc, transactionData, financialTransactionId, referenceId, stamp) ==
    [doc EXCEPT !.status = "scheduled",
                !.paymentMethod = "mtn",
                !.paymentAmount = transactionData.amount,
                !.paidAt = stamp,
                !.mtnPaymentStatus = "SUCCESSFUL",
                !.mtnTransactionId = IdOrElse(financialTransactionId, referenceId),
                !.updatedAt = stamp,
                !.updatedBy = transactionData.userId]

\* the write of lines 553-556, had it also rejected the campaign
PaymentFailedRejecting(doc, stamp) ==
    [doc EXCEPT !.status = "rejected", !.mtnPaymentStatus = "FAILED", !.updatedAt = stamp]

\* lines 553-556: the fields handleCallback writes to a campaign whose payment failed
PaymentFailed(doc, stamp) ==
    [doc EXCEPT !.mtnPaymentStatus = "FAILED", !.updatedAt = stamp]

\* transactionRef.get() of lines 489-497, had an unknown transaction been acknowledged
CallbackTransactionGetLenient(p) ==
    /\ pc[p] = "cb_tx_get"
    /\ IF loc[p].referenceId \notin DOMAIN transactions
       THEN Reply(p, 200, <<>>)
       ELSE Goto(p, "cb_tx_update",
                 [loc[p] EXCEPT !.transactionData =
                    [amount |-> transactions[loc[p].referenceId].amount,
                     userId |-> transactions[loc[p].referenceId].userId,
                     exists |-> TRUE,
                     campaignId |-> transactions[loc[p].referenceId].campaignId]])
    /\ UNCHANGED <<store, cachedToken, aside, nextRef, req, served>>

\* lines 489-497: transactionRef.get()
CallbackTransactionGet(p) ==
    /\ pc[p] = "cb_tx_get"
    /\ IF loc[p].referenceId \notin DOMAIN transactions
       THEN Throw(p, MSG_TX_NOT_FOUND)
       ELSE Goto(p, "cb_tx_update",
                 [loc[p] EXCEPT !.transactionData =
                    [amount |-> transactions[loc[p].referenceId].amount,
                     userId |-> transactions[loc[p].referenceId].userId,
                     exists |-> TRUE,
                     campaignId |-> transactions[loc[p].referenceId].campaignId]])
    /\ UNCHANGED <<store, cachedToken, aside, nextRef, req, served>>

\* lines 500-510 and 539: transactionRef.update(...), then branch on the raw status
CallbackTransactionUpdate(p) ==
    /\ pc[p] = "cb_tx_update"
    /\ LET branch == CallbackBranch(req[p].body.status, loc[p].transactionData.campaignId) IN
       \E ok \in StoreOutcomes :
         IF ok
         THEN /\ transactions' = [transactions EXCEPT ![loc[p].referenceId] =
                    CalledBackTransaction(@, req[p].body)]
              /\ IF branch = "success"
                 THEN Goto(p, "cb_campaign_get", loc[p])
                 ELSE IF branch = "failed"
                 THEN Goto(p, "cb_fail_notify", loc[p])
                 ELSE Reply(p, 200, <<>>)
         ELSE /\ Throw(p, MSG_STORE)
              /\ UNCHANGED transactions
    /\ UNCHANGED <<campaigns, notifications, refunds, cachedToken, aside, nextRef, req, served>>

\* lines 511-514: read the campaign of the transaction
CallbackCampaignGet(p) ==
    /\ pc[p] = "cb_campaign_get"
    /\ LET id == loc[p].transactionData.campaignId IN
       IF IsPendingPayment(id)
       THEN Goto(p, "cb_campaign_update", loc[p])
       ELSE Reply(p, 200, <<>>)
    /\ UNCHANGED <<store, cachedToken, aside, nextRef, req, served>>

\* lines 515-524: move the campaign to scheduled
CallbackCampaignUpdate(p) ==
    /\ pc[p] = "cb_campaign_update"
    /\ LET id == loc[p].transactionData.campaignId IN
       \E ok \in StoreOutcomes :
         IF ok
         THEN /\ campaigns' = [campaigns EXCEPT ![id] =
                    ScheduledByCallback(@, loc[p].transactionData,
                                        req[p].body.financialTransactionId,
                                        loc[p].referenceId, Stamp(id))]
              /\ Goto(p, "cb_notify", loc[p])
         ELSE /\ Throw(p, MSG_STORE)
              /\ UNCHANGED campaigns
    /\ UNCHANGED <<transactions, notifications, refunds, cachedToken, aside, nextRef, req, served>>

\* lines 529-537: notify the payer of the success
CallbackNotify(p) ==
    /\ pc[p] = "cb_notify"
    /\ \E ok \in StoreOutcomes :
         IF ok
         THEN /\ notifications' = notifications (+) SetToBag({
                    Notification(loc[p].transactionData.userId,
                                 loc[p].transactionData.campaignId, "payment_success")})
              /\ Reply(p, 200, <<>>)
         ELSE /\ Throw(p, MSG_STORE)
              /\ UNCHANGED notifications
    /\ UNCHANGED <<campaigns, transactions, refunds, cachedToken, aside, nextRef, req, served>>

\* lines 541-549: notify the payer of the failure
CallbackFailNotify(p) ==
    /\ pc[p] = "cb_fail_notify"
    /\ \E ok \in StoreOutcomes :
         IF ok
         THEN /\ notifications' = notifications (+) SetToBag({
                    Notification(loc[p].transactionData.userId,
                                 loc[p].transactionData.campaignId, "payment_failed")})
              /\ Goto(p, "cb_fail_update", loc[p])
         ELSE /\ Throw(p, MSG_STORE)
              /\ UNCHANGED notifications
    /\ UNCHANGED <<campaigns, transactions, refunds, cachedToken, aside, nextRef, req, served>>

\* lines 552-556: record the failure on the campaign
CallbackFailUpdate(p) ==
    /\ pc[p] = "cb_fail_update"
    /\ LET id == loc[p].transactionData.campaignId IN
       \E ok \in StoreOutcomes :
         IF ok /\ id \in DOMAIN campaigns
         THEN /\ campaigns' = [campaigns EXCEPT ![id] = PaymentFailed(@, Stamp(id))]
              /\ Reply(p, 200, <<>>)
         ELSE /\ Throw(p, MSG_STORE)
              /\ UNCHANGED campaigns
    /\ UNCHANGED <<transactions, notifications, refunds, cachedToken, aside, nextRef, req, served>>

-----------------------------------------------------------------------------
(* POST /api/payments/refund -> createRefundRequest *)

\* the role test of lines 101 and 582, had it let every role pass
IsAdminRoleAnyRole(role) == role \in {"admin", "both", "user"}

IsAdminRole(role) == role = "admin" \/ role = "both"

\* authenticateToken, requireAdmin, the route's check, createRefundRequest down to
\* its role check (collection "users" is never written by this service)
StartRefund(p, authed, uid, body) ==
    /\ Accept(p, [op |-> "refund", body |-> body, uid |-> uid, authed |-> authed])
    /\ IF ~authed
       THEN Reply(p, 401, <<>>)
       ELSE IF ~IsAdminRole(users[uid].role)
       THEN Reply(p, 403, <<>>)
       ELSE IF ~HasId(body.referenceId) \/ body.amount = 0
               \/ body.phoneNumber = <<>> \/ ~Truthy(body.reason)
       THEN Reply(p, 400, <<>>)
       ELSE Begin(p, "rf_user_get", NoLocals)
    /\ UNCHANGED <<store, cachedToken, aside, nextRef>>

\* lines 579-584: the service checks the requester's role again
RefundUserGet(p) ==
    /\ pc[p] = "rf_user_get"
    /\ IF ~IsAdminRole(users[req[p].uid].role)
       THEN Throw(p, MSG_ADMIN_ONLY)
       ELSE Goto(p, "rf_add", loc[p])
    /\ UNCHANGED <<store, cachedToken, aside, nextRef, req, served>>

\* lines 590-609: record the request for manual handling
RefundAdd(p) ==
    /\ pc[p] = "rf_add"
    /\ \E ok \in StoreOutcomes :
         IF ok
         THEN /\ refunds' = refunds (+) SetToBag({
                    [status |-> "PENDING_MANUAL",
                     amount |-> req[p].body.amount,
                     phoneNumber |-> formatPhoneNumber(req[p].body.phoneNumber),
                     reason |-> req[p].body.reason,
                     originalReferenceId |-> req[p].body.referenceId,
                     requestedBy |-> req[p].uid]})
              /\ Reply(p, 200, <<>>)
         ELSE /\ Throw(p, MSG_STORE)
              /\ UNCHANGED refunds
    /\ UNCHANGED <<campaigns, transactions, notifications, cachedToken, aside, nextRef, req, served>>

-----------------------------------------------------------------------------
(* What the clients and the vendor may send *)

PHONE_MTN == <<"6", "7", "7", "1", "2", "3", "4", "5", "6">>
PHONE_OTHER == <<"6", "9", "7", "1", "2", "3", "4", "5", "6">>
PHONE_SHORT == <<"6", "7", "7">>

VendorStatuses ==
    {"SUCCESSFUL", "SUCCESS", "COMPLETED", "FAILED", "REJECTED", "CANCELLED",
     "EXPIRED", "PENDING", "PROCESSING", "successful", "", Undefined}

Uuids == {Uuid(n) : n \in 1..MaxRefs}

KnownIds == Uuids \cup {VendorMessageId(n) : n \in 1..MaxRefs}

Failure == [ok |-> FALSE]

TokenAnswers(I) ==
    {Failure} \cup {[ok |-> TRUE, access_token |-> "t1", expires_in |-> e] : e \in I.expiries}

InitiateData(errorCode, ErrorMessage, status, MessageId) ==
    [status |-> status, message |-> <<>>, errorCode |-> errorCode,
     ErrorCode |-> NoCode, body |-> <<>>, ErrorMessage |-> ErrorMessage,
     MessageId |-> MessageId]

\* the vendor names the payment itself, or leaves the reference id as its name
InitiateAnswers(I) ==
    {Failure} \cup
    {[ok |-> TRUE,
      data |-> InitiateData(c, IF c = NoCode THEN <<>> ELSE t, s,
                            IF v THEN VendorMessageId(nextRef + 1) ELSE NoId)] :
        c \in I.codes, t \in I.texts, s \in I.initStatuses, v \in I.vendorIds}

StatusData(status, amount, transactionId) ==
    [status |-> status, transactionStatus |-> Undefined, amount |-> amount,
     transactionId |-> transactionId, financialTransactionId |-> NoId]

StatusAnswers(I) ==
    {Failure} \cup
    {[ok |-> TRUE, data |-> StatusData(s, a, t)] :
        s \in I.pollStatuses, a \in I.pollAmounts, t \in I.pollTransactionIds}

InitiateBody(campaignId, amount, phoneNumber) ==
    [amount |-> amount, campaignId |-> campaignId, phoneNumber |-> phoneNumber]

CallbackBody(referenceId, order_id, status, financialTransactionId) ==
    [status |-> status, financialTransactionId |-> financialTransactionId,
     referenceId |-> referenceId, order_id |-> order_id]

RefundBody(referenceId, amount, phoneNumber, reason) ==
    [amount |-> amount, referenceId |-> referenceId, phoneNumber |-> phoneNumber,
     reason |-> reason]

-----------------------------------------------------------------------------
(* One step of one request, the inputs drawn from I *)

PaymentStep(p, I) ==
    \/ TokenCheck(p)
    \/ TokenFetch(p, TokenAnswers(I))
    \/ InitiateCampaignGet(p)
    \/ InitiatePost(p, InitiateAnswers(I))
    \/ InitiateTransactionSet(p)
    \/ InitiateCampaignUpdate(p)
    \/ StatusPost(p, StatusAnswers(I))
    \/ StatusTransactionGet(p)
    \/ StatusTransactionUpdate(p)
    \/ SuccessCampaignGet(p)
    \/ SuccessCampaignUpdate(p)
    \/ SuccessNotify(p)
    \/ CallbackTransactionGet(p)
    \/ CallbackTransactionUpdate(p)
    \/ CallbackCampaignGet(p)
    \/ CallbackCampaignUpdate(p)
    \/ CallbackNotify(p)
    \/ CallbackFailNotify(p)
    \/ CallbackFailUpdate(p)

PaymentStart(p, I) ==
    \/ \E a \in I.authed, uid \in Users, body \in I.initiateBodies :
         StartInitiate(p, a, uid, body)
    \/ \E a \in I.authed, body \in I.statusBodies :
         StartStatus(p, a, "u1", body)
    \/ \E body \in I.callbackBodies :
         StartCallback(p, body)

RefundStep(p, I) ==
    \/ \E a \in I.authed, uid \in Requesters, body \in I.refundBodies :
         StartRefund(p, a, uid, body)
    \/ RefundUserGet(p)
    \/ RefundAdd(p)

-----------------------------------------------------------------------------
(* Spec: concurrent payment requests *)

ConcurrentInputs ==
    [authed |-> {TRUE},
     expiries |-> {0},
     codes |-> {NoCode},
     texts |-> {<<>>},
     initStatuses |-> {Undefined},
     vendorIds |-> {FALSE},
     pollStatuses |-> {"SUCCESSFUL", "FAILED"},
     pollAmounts |-> {MIN_AMOUNT},
     pollTransactionIds |-> {NoId},
     initiateBodies |-> {InitiateBody(c, MIN_AMOUNT, PHONE_MTN) : c \in Campaigns},
     statusBodies |-> {[referenceId |-> id, campaignId |-> c] : id \in Uuids, c \in Campaigns},
     callbackBodies |-> {CallbackBody(id, NoId, s, FinancialId(1)) :
                            id \in Uuids, s \in {"SUCCESSFUL", "FAILED"}}]

Next == \E p \in Procs : PaymentStart(p, ConcurrentInputs) \/ PaymentStep(p, ConcurrentInputs)

Spec == Init /\ [][Next]_vars

-----------------------------------------------------------------------------
(* SeqSpec: one request at a time, with every status the vendor may send *)

SeqStatuses == {"SUCCESSFUL", "SUCCESS", "FAILED", "REJECTED", "PENDING", Undefined}

SeqInputs ==
    [authed |-> {TRUE},
     expiries |-> {0},
     codes |-> {NoCode},
     texts |-> {<<>>},
     initStatuses |-> {Undefined, "ACCEPTED"},
     vendorIds |-> BOOLEAN,
     pollStatuses |-> SeqStatuses,
     pollAmounts |-> {MIN_AMOUNT},
     pollTransactionIds |-> {NoId},
     initiateBodies |-> {InitiateBody(c, MIN_AMOUNT, PHONE_MTN) : c \in Campaigns},
     statusBodies |->
        {[referenceId |-> id, campaignId |-> c] :
            id \in KnownIds, c \in {"c1", Undefined}},
     callbackBodies |->
        {CallbackBody(id, NoId, s, FinancialId(1)) :
            id \in Uuids, s \in SeqStatuses \ {Undefined}}
        \cup {CallbackBody(NoId, Uuid(1), "SUCCESSFUL", FinancialId(1))}]

SeqNext == PaymentStart(1, SeqInputs) \/ PaymentStep(1, SeqInputs)

SeqSpec == Init /\ [][SeqNext]_vars

-----------------------------------------------------------------------------
(* HttpSpec: one request at a time, with every kind of request and of refusal *)

HttpInputs ==
    [authed |-> BOOLEAN,
     expiries |-> {0},
     codes |-> {NoCode, NumCode(404)},
     texts |-> {VENDOR_MSG_BALANCE, VENDOR_MSG_ACCOUNT},
     initStatuses |-> {Undefined},
     vendorIds |-> {FALSE},
     pollStatuses |-> {"SUCCESSFUL", "FAILED", "PENDING"},
     pollAmounts |-> {MIN_AMOUNT},
     pollTransactionIds |-> {NoId},
     initiateBodies |->
        {InitiateBody(c, MIN_AMOUNT, PHONE_MTN) : c \in Campaigns \cup {MissingCampaign}}
        \cup {InitiateBody(Undefined, MIN_AMOUNT, PHONE_MTN),
              InitiateBody("c1", 0, PHONE_MTN),
              InitiateBody("c1", MIN_AMOUNT - 1, PHONE_MTN),
              InitiateBody("c1", MIN_AMOUNT, <<>>),
              InitiateBody("c1", MIN_AMOUNT, PHONE_OTHER),
              InitiateBody("c1", MIN_AMOUNT, PHONE_SHORT)},
     statusBodies |->
        {[referenceId |-> id, campaignId |-> c] : id \in Uuids, c \in {"c1", MissingCampaign}}
        \cup {[referenceId |-> NoId, campaignId |-> "c1"]},
     callbackBodies |->
        {CallbackBody(id, NoId, s, FinancialId(1)) :
            id \in Uuids, s \in {"SUCCESSFUL", "FAILED", "PENDING"}}
        \cup {CallbackBody(NoId, NoId, "SUCCESSFUL", FinancialId(1)),
              CallbackBody(VendorMessageId(1), NoId, "SUCCESSFUL", FinancialId(1))},
     refundBodies |->
        {RefundBody(Uuid(1), MIN_AMOUNT, PHONE_MTN, "duplicate"),
         RefundBody(Uuid(1), 0, PHONE_MTN, "duplicate")}]

HttpNext ==
    \/ PaymentStart(1, HttpInputs)
    \/ PaymentStep(1, HttpInputs)
    \/ RefundStep(1, HttpInputs)

HttpSpec == Init /\ [][HttpNext]_vars

-----------------------------------------------------------------------------
(* NormSpec: normalizeYnoteStatus applied to every shape of vendor answer *)

NormInputs ==
    {[status |-> s, transactionStatus |-> t, amount |-> a,
      transactionId |-> NoId, financialTransactionId |-> NoId] :
        s \in VendorStatuses, t \in VendorStatuses, a \in {0, MIN_AMOUNT}}

NormInit == StoreInit /\ arg \in NormInputs /\ out = "none"

Normalize ==
    /\ out = "none"
    /\ out' = normalizeYnoteStatus(arg).status
    /\ UNCHANGED <<store, cachedToken, nextRef, pc, req, loc, res, served, now, arg>>

NormSpec == NormInit /\ [][Normalize]_vars

-----------------------------------------------------------------------------
(* GatewaySpec: payments initiated one at a time, with every shape of answer *)
(* of the payment endpoint                                                   *)

\* vendor codes: absent, 0, success codes as number and as string, error codes
GatewayCodes ==
    {NoCode, NumCode(0), NumCode(200), StrCode(201), NumCode(500), StrCode(500)}

GatewayAnswers ==
    {Failure} \cup
    {[ok |-> TRUE,
      data |-> [status |-> Undefined, message |-> <<>>, errorCode |-> c,
                ErrorCode |-> d, body |-> <<>>, ErrorMessage |-> t,
                MessageId |-> NoId]] :
        c \in GatewayCodes, d \in GatewayCodes, t \in {<<>>, VENDOR_MSG_BALANCE}}

GatewayNext ==
    \/ \E body \in ConcurrentInputs.initiateBodies :
         StartInitiate(1, TRUE, Owner[body.campaignId], body)
    \/ TokenCheck(1)
    \/ TokenFetch(1, TokenAnswers(ConcurrentInputs))
    \/ InitiateCampaignGet(1)
    \/ InitiatePost(1, GatewayAnswers)
    \/ InitiateTransactionSet(1)
    \/ InitiateCampaignUpdate(1)

GatewaySpec == Init /\ [][GatewayNext]_vars

-----------------------------------------------------------------------------
(* TokenSpec: concurrent getAccessToken calls while the clock advances *)

\* the clock advances by 30 seconds at a time
TICK_MS == 30 * 1000

\* expires_in of the token endpoint's answers, in seconds (0: none given)
TokenLifetimes == {0, 30, 90}

\* the endpoint never issues the same token for two lifetimes
IssuedToken(expires_in) == <<"token", expires_in>>

TokenIssues ==
    {Failure} \cup
    {[ok |-> TRUE, access_token |-> IssuedToken(e), expires_in |-> e] : e \in TokenLifetimes}

\* Date.now() moves on between any two steps of the handlers
Tick ==
    /\ now < MaxTicks * TICK_MS
    /\ now' = now + TICK_MS
    /\ UNCHANGED <<store, cachedToken, nextRef, pc, req, loc, res, served, arg, out>>

\* a status check is the shortest request that calls getAccessToken; its call of
\* the status endpoint fails, which ends the request
TokenNext ==
    \/ Tick
    \/ \E p \in Procs :
         \/ StartStatus(p, TRUE, "u1", [referenceId |-> Uuid(1), campaignId |-> "c1"])
         \/ TokenCheck(p)
         \/ TokenFetch(p, TokenIssues)
         \/ StatusPost(p, {Failure})

TokenSpec == Init /\ [][TokenNext]_vars

-----------------------------------------------------------------------------
(* PhoneSpec: formatPhoneNumber and validateMtnPhoneNumber applied to phone *)
(* numbers as the clients write them                                        *)

\* how a number may begin: nothing, trunk digit, country code, both, "+"
PhoneHeads ==
    {<<>>, <<"0">>, <<"0", "0">>, <<"2", "3", "7">>, <<"+", "2", "3", "7">>,
     <<"2", "3", "7", "0">>, <<"0", "2", "3", "7">>, <<"+", "2", "3", "7", " ">>}

\* carrier prefixes, of MTN and of others, and numbers cut short
PhoneCarriers ==
    {<<>>, <<"6">>, <<"6", "5">>, <<"6", "7">>, <<"6", "8">>, <<"6", "9">>,
     <<"6", "6">>, <<"2", "3">>}

PhoneSeparators == {<<>>, <<" ">>, <<"-">>}

PHONE_TAIL == <<"7", "1", "2", "3", "4", "5", "6", "8", "9", "0">>

PhoneInputs ==
    {h \o c \o s \o SubSeq(PHONE_TAIL, 1, n) :
        h \in PhoneHeads, c \in PhoneCarriers, s \in PhoneSeparators, n \in 0..MaxTail}

PhoneInit == StoreInit /\ arg \in PhoneInputs /\ out = [op |-> "none"]

Format ==
    /\ out.op = "none"
    /\ out' = [op |-> "format", result |-> formatPhoneNumber(arg)]
    /\ UNCHANGED <<store, cachedToken, nextRef, pc, req, loc, res, served, now, arg>>

\* the formatted number is formatted again
Reformat ==
    /\ out.op = "format"
    /\ out' = [op |-> "reformat", result |-> formatPhoneNumber(out.result),
               first |-> out.result]
    /\ UNCHANGED <<store, cachedToken, nextRef, pc, req, loc, res, served, now, arg>>

Validate ==
    /\ out.op = "none"
    /\ out' = [op |-> "validate", result |-> validateMtnPhoneNumber(arg)]
    /\ UNCHANGED <<store, cachedToken, nextRef, pc, req, loc, res, served, now, arg>>

PhoneNext == Format \/ Reformat \/ Validate

PhoneSpec == PhoneInit /\ [][PhoneNext]_vars

-----------------------------------------------------------------------------
(* LinkSpec: concurrent initiatePayment calls of the owners and of others,  *)
(* the gateway naming the payment itself or not, every write able to fail   *)

LinkInputs ==
    [ConcurrentInputs EXCEPT !.vendorIds = BOOLEAN, !.initStatuses = {Undefined, "ACCEPTED"}]

LinkNext ==
    \E p \in Procs :
        \/ \E uid \in Users, body \in LinkInputs.initiateBodies :
             StartInitiate(p, TRUE, uid, body)
        \/ TokenCheck(p)
        \/ TokenFetch(p, TokenAnswers(LinkInputs))
        \/ InitiateCampaignGet(p)
        \/ InitiatePost(p, InitiateAnswers(LinkInputs))
        \/ InitiateTransactionSet(p)
        \/ InitiateCampaignUpdate(p)

LinkSpec == Init /\ [][LinkNext]_vars

-----------------------------------------------------------------------------
(* Properties *)

\* the status normalizeYnoteStatus gives to a vendor status string
NormalizedStatus(status) == normalizeYnoteStatus(StatusData(status, 0, NoId)).status

\* the transaction a callback names
CallbackReference(body) == IdOrElse(body.referenceId, body.order_id)

\* handler p holds a SUCCESSFUL status for campaign c and has yet to read the campaign
ProcessesSuccess(p, c) ==
    \/ /\ req[p].op = "status"
       /\ pc[p] \in {"st_tx_get", "st_tx_update", "st_campaign_get"}
       /\ loc[p].normalizedStatus.status = "SUCCESSFUL"
       /\ req[p].body.campaignId = c
    \/ /\ req[p].op = "callback"
       /\ pc[p] \in {"cb_tx_update", "cb_campaign_get"}
       /\ NormalizedStatus(req[p].body.status) = "SUCCESSFUL"
       /\ loc[p].transactionData.campaignId = c

\* handler p is about to write campaign c on behalf of a SUCCESSFUL status
WritesSuccess(p, c) ==
    \/ /\ req[p].op = "status"
       /\ pc[p] = "st_campaign_update"
       /\ loc[p].normalizedStatus.status = "SUCCESSFUL"
       /\ req[p].body.campaignId = c
    \/ /\ req[p].op = "callback"
       /\ pc[p] = "cb_campaign_update"
       /\ NormalizedStatus(req[p].body.status) = "SUCCESSFUL"
       /\ loc[p].transactionData.campaignId = c

\* C1: once a handler has written a campaign as paid (status scheduled, paidAt
\* set), no other handler performs that write again, however the poll and the
\* callback handlers for the campaign interleave.
C1_ScheduledWrittenOnce ==
    [][\A c \in Campaigns :
          campaigns[c].paidAt # 0 => campaigns'[c].paidAt = campaigns[c].paidAt]_vars

\* C2: a step of a handler that processes a SUCCESSFUL status for a campaign
\* that is already scheduled changes no field of the campaign, creates no
\* notification, and does not head for the campaign write.
C2_SuccessOnScheduledIsNoOp ==
    [][\A p \in Procs, c \in Campaigns :
          (ProcessesSuccess(p, c) /\ campaigns[c].status = "scheduled" /\ pc'[p] # pc[p])
             => /\ campaigns'[c] = campaigns[c]
                /\ notifications' = notifications
                /\ pc'[p] \notin {"st_campaign_update", "cb_campaign_update",
                                  "st_notify", "cb_notify"}]_vars

\* a SUCCESSFUL callback was answered 200 for a campaign that a poll had
\* already moved to scheduled (the campaign names the poll's transaction id,
\* not the callback's)
C2_SuccessOnScheduledSeen ==
    \E p \in Procs :
        /\ pc[p] = "done" /\ req[p].op = "callback"
        /\ req[p].body.status = "SUCCESSFUL"
        /\ res[p].http = 200
        /\ CallbackReference(req[p].body) \in DOMAIN transactions
        /\ LET row == transactions[CallbackReference(req[p].body)] IN
             /\ row.mtnCallbackData = req[p].body
             /\ row.ynoteStatusResponse # Absent
             /\ campaigns[row.campaignId].status = "scheduled"
             /\ campaigns[row.campaignId].paidAt # 0
             /\ campaigns[row.campaignId].mtnTransactionId = row.referenceId
             /\ campaigns[row.campaignId].mtnTransactionId # req[p].body.financialTransactionId

\* C3: whatever the operation, a campaign's status only ever changes from
\* pending_payment to scheduled, and only in the campaign write of a handler
\* that processes a SUCCESSFUL status for that campaign.
C3_OnlyPendingToScheduledOnSuccess ==
    [][\A c \in Campaigns :
          campaigns'[c].status # campaigns[c].status
             => /\ campaigns[c].status = "pending_payment"
                /\ campaigns'[c].status = "scheduled"
                /\ \E p \in Procs : WritesSuccess(p, c)]_vars

\* a campaign was paid, and a later FAILED callback wrote to it and left it scheduled
C3_ScheduledThenFailedSeen ==
    \E c \in Campaigns :
        /\ campaigns[c].status = "scheduled"
        /\ campaigns[c].paidAt # 0
        /\ campaigns[c].mtnPaymentStatus = "FAILED"

\* the vendor status of an answer: the field status, else transactionStatus
VendorStatusOf(ynoteResponse) ==
    IF Truthy(ynoteResponse.status) THEN ynoteResponse.status
    ELSE ynoteResponse.transactionStatus

\* C4: normalizeYnoteStatus gives SUCCESSFUL for SUCCESSFUL, SUCCESS and
\* COMPLETED, FAILED for FAILED, REJECTED, CANCELLED and EXPIRED, and PENDING
\* for every other vendor status, an absent or empty one included; the result
\* is always one of the three payment statuses.
C4_NormalizeTable ==
    out # "none" =>
        /\ out \in PaymentStatus
        /\ out = (IF VendorStatusOf(arg) \in {"SUCCESSFUL", "SUCCESS", "COMPLETED"}
                  THEN "SUCCESSFUL"
                  ELSE IF VendorStatusOf(arg) \in {"FAILED", "REJECTED", "CANCELLED", "EXPIRED"}
                  THEN "FAILED"
                  ELSE "PENDING")

\* COMPLETED, carried by transactionStatus alone, was normalised to SUCCESSFUL
C4_CompletedSeen ==
    /\ out = "SUCCESSFUL"
    /\ arg.status = Undefined
    /\ arg.transactionStatus = "COMPLETED"

\* C5: a callback answered 200 for a known transaction, whose status
\* normalises to SUCCESSFUL, leaves the campaign scheduled and its owner
\* notified of the success, as a poll with that status does.
C5_CallbackDecidesOnNormalizedStatus ==
    \A p \in Procs :
        (/\ pc[p] = "done" /\ req[p].op = "callback" /\ res[p].http = 200
         /\ NormalizedStatus(req[p].body.status) = "SUCCESSFUL"
         /\ CallbackReference(req[p].body) \in DOMAIN transactions)
        => LET row == transactions[CallbackReference(req[p].body)] IN
             /\ campaigns[row.campaignId].status = "scheduled"
             /\ BagIn(Notification(row.userId, row.campaignId, "payment_success"),
                      notifications)

\* C6: a poll or a callback answered 200, whose status normalises to FAILED
\* for a payment linked to a campaign, leaves a payment_failed notification
\* for the campaign's owner and mtnPaymentStatus FAILED on the campaign.
C6_FailedIsRecordedAtBothEntryPoints ==
    \A p \in Procs :
        LET failed(c) ==
                /\ BagIn(Notification(campaigns[c].userId, c, "payment_failed"), notifications)
                /\ campaigns[c].mtnPaymentStatus = "FAILED"
        IN
        /\ (/\ pc[p] = "done" /\ req[p].op = "callback" /\ res[p].http = 200
            /\ NormalizedStatus(req[p].body.status) = "FAILED"
            /\ CallbackReference(req[p].body) \in DOMAIN transactions)
           => failed(transactions[CallbackReference(req[p].body)].campaignId)
        /\ (/\ pc[p] = "done" /\ req[p].op = "status" /\ res[p].http = 200
            /\ req[p].body.campaignId \in Campaigns
            /\ req[p].body.referenceId \in DOMAIN transactions
            /\ transactions[req[p].body.referenceId].campaignId = req[p].body.campaignId
            /\ transactions[req[p].body.referenceId].ynoteStatusResponse # Absent
            /\ normalizeYnoteStatus(
                  transactions[req[p].body.referenceId].ynoteStatusResponse).status = "FAILED")
           => failed(req[p].body.campaignId)

\* the rows of the payment a poll names, by reference id or by vendor message id
RowsOfPayment(id) ==
    {r \in DOMAIN transactions :
        transactions[r].referenceId = id \/ transactions[r].ynoteMessageId = id}

\* C7: after a poll or a callback answered 200, the transaction row of the
\* payment holds the raw payload just received and the normalised form of its
\* status.
C7_RowHoldsLatestPayloadAndNormalizedStatus ==
    \A p \in Procs :
        /\ (/\ pc[p] = "done" /\ req[p].op = "callback" /\ res[p].http = 200
            /\ CallbackReference(req[p].body) \in DOMAIN transactions)
           => LET row == transactions[CallbackReference(req[p].body)] IN
                /\ row.mtnCallbackData = req[p].body
                /\ row.status = NormalizedStatus(req[p].body.status)
        /\ (pc[p] = "done" /\ req[p].op = "status" /\ res[p].http = 200)
           => \A r \in RowsOfPayment(req[p].body.referenceId) :
                /\ transactions[r].ynoteStatusResponse # Absent
                /\ transactions[r].status =
                      normalizeYnoteStatus(transactions[r].ynoteStatusResponse).status

\* C8: the status of every transaction row is PENDING, SUCCESSFUL or FAILED.
C8_RowStatusIsPaymentStatus ==
    \A r \in DOMAIN transactions : transactions[r].status \in PaymentStatus

\* request r passed authentication and the argument checks of initiatePayment
EntersInitiatePayment(r) ==
    /\ r.op = "initiate"
    /\ r.authed
    /\ Truthy(r.body.campaignId)
    /\ r.body.amount >= MIN_AMOUNT
    /\ validateMtnPhoneNumber(r.body.phoneNumber).isValid

\* p serves an initiatePayment call for an existing campaign that is not pending_payment
NonPendingCall(p) ==
    /\ EntersInitiatePayment(req[p])
    /\ req[p].body.campaignId \in DOMAIN campaigns
    /\ campaigns[req[p].body.campaignId].status # "pending_payment"

C10_InitiateErrorPrecedence ==
    \A p \in Procs :
        (pc[p] = "done" /\ req[p].op = "initiate" /\ req[p].authed)
        => IF ~EntersInitiatePayment(req[p]) THEN res[p].http = 400
           ELSE IF req[p].body.campaignId \notin DOMAIN campaigns THEN res[p].http = 404
           ELSE IF campaigns[req[p].body.campaignId].userId # req[p].uid THEN res[p].http = 403
           ELSE IF campaigns[req[p].body.campaignId].status # "pending_payment"
           THEN res[p].http = 400
           ELSE res[p].http \in {200, 500}

\* p has answered an initiate request with the PENDING result
InitiateSucceeded(p) ==
    pc[p] = "done" /\ req[p].op = "initiate" /\ res[p].http = 200

\* C11: when initiatePayment has returned its PENDING result, the row keyed by
\* the reference id it drew exists and carries the request's campaign id, user
\* id and amount; and a row is only ever created by a handler that holds the
\* gateway's answer to its payment request, under the reference id it drew.
C11_RowWrittenBeforePendingResult ==
    [][/\ \A p \in Procs :
            InitiateSucceeded(p)' =>
               /\ Uuid(nextRef') \in DOMAIN transactions'
               /\ transactions'[Uuid(nextRef')].campaignId = req'[p].body.campaignId
               /\ transactions'[Uuid(nextRef')].userId = req'[p].uid
               /\ transactions'[Uuid(nextRef')].amount = req'[p].body.amount
       /\ DOMAIN transactions' # DOMAIN transactions =>
            \E p \in Procs :
               /\ pc[p] = "ip_tx_set"
               /\ loc[p].paymentResponse # Absent
               /\ DOMAIN transactions' = DOMAIN transactions \cup {loc[p].referenceId}
               /\ transactions'[loc[p].referenceId].ynoteResponse = loc[p].paymentResponse]_vars

\* an initiate request was answered 200 and its row holds the gateway's answer
C11_PendingResultSeen ==
    \E p \in Procs :
        /\ InitiateSucceeded(p)
        /\ res[p].referenceId = Uuid(nextRef)
        /\ Uuid(nextRef) \in DOMAIN transactions
        /\ transactions[Uuid(nextRef)].ynoteResponse # Absent
        /\ campaigns[req[p].body.campaignId].mtnReferenceId = Uuid(nextRef)

\* the answer carries a vendor code, in errorCode or in ErrorCode, that is
\* present and none of 200, 201, "200", "201"
CarriesForeignCode(paymentResponse) ==
    \E c \in {paymentResponse.errorCode, paymentResponse.ErrorCode} :
        c # NoCode /\ c \notin {NumCode(200), NumCode(201), StrCode(200), StrCode(201)}

\* the vendor code that counts: errorCode unless it is absent or 0, else ErrorCode
CountedCode(paymentResponse) ==
    IF paymentResponse.errorCode \notin {NoCode, NumCode(0)}
    THEN paymentResponse.errorCode
    ELSE paymentResponse.ErrorCode

\* message is the upstream error raised for vendor code c
NamesVendorCode(message, c) ==
    StartsWith(message, MSG_YNOTE_PREFIX \o DecimalText(c[2]) \o MSG_YNOTE_SEP)

\* C12 (as stated): initiatePayment goes on past the gateway's answer only if
\* the answer carries no vendor code, in errorCode or ErrorCode, that is present
\* and none of 200, 201, "200", "201".
C12_ErrorOnEveryForeignCode ==
    [][\A p \in Procs :
          (pc[p] = "ip_post" /\ pc'[p] = "ip_tx_set")
             => ~CarriesForeignCode(loc'[p].paymentResponse)]_vars

\* C12 (amended): the vendor code that counts is errorCode unless it is absent
\* or 0, else ErrorCode. initiatePayment goes on past the gateway's answer
\* exactly when that code is absent, 0, or one of 200, 201, "200", "201";
\* otherwise it raises the upstream error naming that code, and when the call
\* itself fails it raises the call's own error. In both failures no transaction
\* row is created and no campaign field is changed.
C12_UpstreamErrorOnCountedCode ==
    [][\A p \in Procs :
          (pc[p] = "ip_post" /\ pc'[p] # "ip_post")
             => /\ store' = store
                /\ IF pc'[p] = "ip_tx_set"
                   THEN CountedCode(loc'[p].paymentResponse) \in
                           {NoCode, NumCode(0), NumCode(200), NumCode(201),
                            StrCode(200), StrCode(201)}
                   ELSE /\ pc'[p] = "done"
                        /\ res'[p].http # 200
                        /\ \/ res'[p].error = MSG_NETWORK
                           \/ \E c \in GatewayCodes :
                                /\ c \notin {NoCode, NumCode(0), NumCode(200), NumCode(201),
                                             StrCode(200), StrCode(201)}
                                /\ NamesVendorCode(res'[p].error, c)]_vars

\* the gateway answered with vendor code 500 under HTTP 200: the request failed
\* with the upstream error and the store is as it was at start-up
C12_UpstreamErrorSeen ==
    \E p \in Procs :
        /\ pc[p] = "done" /\ req[p].op = "initiate"
        /\ res[p].http = 500
        /\ res[p].error = YnoteErrorMessage(StrCode(500), VENDOR_MSG_BALANCE)
        /\ transactions = <<>>
        /\ campaigns[req[p].body.campaignId].updatedAt = 0
        /\ campaigns[req[p].body.campaignId].mtnReferenceId = NoId

\* C13: a callback whose reference id (referenceId, else order_id) is missing
\* or names no transaction row fails with the missing-field, respectively the
\* not-found error, whatever its status, and no step of it changes the store.
C13_UnknownCallbackWritesNothing ==
    [][\A p \in Procs :
          (/\ req'[p].op = "callback"
           /\ pc'[p] # pc[p] \/ req'[p] # req[p]
           /\ \/ ~HasId(CallbackReference(req'[p].body))
              \/ CallbackReference(req'[p].body) \notin DOMAIN transactions')
          => /\ store' = store
             /\ pc'[p] \in {"cb_tx_get", "done"}
             /\ pc'[p] = "done" =>
                   res'[p].error = (IF HasId(CallbackReference(req'[p].body))
                                    THEN MSG_TX_NOT_FOUND
                                    ELSE MSG_CB_REF_MISSING)]_vars

\* a SUCCESSFUL callback that names no row was refused while a payment was
\* under way: the campaign still awaits its payment and nobody was notified
C13_UnknownCallbackSeen ==
    \E p \in Procs :
        /\ pc[p] = "done" /\ req[p].op = "callback"
        /\ req[p].body.status = "SUCCESSFUL"
        /\ HasId(CallbackReference(req[p].body))
        /\ CallbackReference(req[p].body) \notin DOMAIN transactions
        /\ res[p].error = MSG_TX_NOT_FOUND
        /\ \E r \in DOMAIN transactions :
             /\ transactions[r].mtnCallbackData = Absent
             /\ campaigns[transactions[r].campaignId].status = "pending_payment"
        /\ notifications = EmptyBag

\* C14: POST /ynote-callback answers 400 when the reference id is missing, 404
\* when the transaction is not found, and 200 in every other case, a failure of
\* the processing included.
C14_CallbackAnswers200Otherwise ==
    \A p \in Procs :
        (pc[p] = "done" /\ req[p].op = "callback")
        => res[p].http = (IF ~HasId(CallbackReference(req[p].body)) THEN 400
                          ELSE IF CallbackReference(req[p].body) \notin DOMAIN transactions
                          THEN 404
                          ELSE 200)

\* the cache slot as one fetch writes it: the token issued with expires_in,
\* expiring that many seconds (3600 if none given) after the time the call read
FetchedAt(time, expires_in) ==
    [present |-> TRUE, token |-> IssuedToken(expires_in),
     expiresAt |-> time + (IF expires_in = 0 THEN 3600 ELSE expires_in) * 1000]

C16_CacheSlotFromOneFetch ==
    /\ \/ cachedToken = NoToken
       \/ \E e \in TokenLifetimes, k \in 0..MaxTicks :
            k * TICK_MS <= now /\ cachedToken = FetchedAt(k * TICK_MS, e)
    /\ \A p \in Procs :
          pc[p] = "st_post" => \E e \in TokenLifetimes : loc[p].accessToken = IssuedToken(e)

\* two calls raced: each fetched its own token, and the slot holds the pair of
\* the one that finished last
C16_DuplicateFetchSeen ==
    \E p, q \in Procs :
        /\ pc[p] = "st_post" /\ pc[q] = "st_post"
        /\ loc[p].now = loc[q].now
        /\ loc[p].accessToken # loc[q].accessToken
        /\ \E e \in TokenLifetimes :
             /\ loc[q].accessToken = IssuedToken(e)
             /\ cachedToken = FetchedAt(loc[q].now, e)

\* the digits of a phone number as written
DigitsOf(phone) == SelectSeq(phone, LAMBDA ch : ch \in Digits)

\* digits without one leading 0
WithoutTrunk(digits) ==
    IF digits # <<>> /\ Head(digits) = "0" THEN Tail(digits) ELSE digits

BeginsWith237(digits) ==
    Len(digits) >= 3 /\ digits[1] = "2" /\ digits[2] = "3" /\ digits[3] = "7"

\* C17: formatPhoneNumber removes every non-digit, then one leading 0, then
\* prepends 237 unless the digits left begin with 237. The result holds digits
\* only and begins with 237, 0677123456 and 677123456 both give 237677123456,
\* and formatting the result again gives the result.
C17_FormatPhoneNumber ==
    /\ out.op = "format" =>
          /\ out.result = (IF BeginsWith237(WithoutTrunk(DigitsOf(arg)))
                           THEN WithoutTrunk(DigitsOf(arg))
                           ELSE <<"2", "3", "7">> \o WithoutTrunk(DigitsOf(arg)))
          /\ \A i \in 1..Len(out.result) : out.result[i] \in Digits
          /\ BeginsWith237(out.result)
          /\ arg \in {<<"0", "6", "7", "7", "1", "2", "3", "4", "5", "6">>,
                      <<"6", "7", "7", "1", "2", "3", "4", "5", "6">>}
                => out.result =
                      <<"2", "3", "7", "6", "7", "7", "1", "2", "3", "4", "5", "6">>
    /\ out.op = "reformat" => out.result = out.first

\* 0677123456 was formatted to 237677123456, and formatted again
C17_TrunkNumberFormattedTwice ==
    /\ out.op = "reformat"
    /\ arg = <<"0", "6", "7", "7", "1", "2", "3", "4", "5", "6">>
    /\ out.result = <<"2", "3", "7", "6", "7", "7", "1", "2", "3", "4", "5", "6">>

\* the digits validateMtnPhoneNumber looks at: without a leading 237, then
\* without a leading 0
LocalDigits(phone) ==
    WithoutTrunk(IF BeginsWith237(DigitsOf(phone))
                 THEN SubSeq(DigitsOf(phone), 4, Len(DigitsOf(phone)))
                 ELSE DigitsOf(phone))

\* C18: validateMtnPhoneNumber accepts a phone exactly when it has at least 9
\* digits and its digits, taken without a leading 237 and then without a
\* leading 0, begin with 65, 67 or 68; otherwise it gives isValid = FALSE with a
\* reason that is not empty: too short, or not an MTN number.
C18_ValidateMtnPhoneNumber ==
    out.op = "validate" =>
        LET enough == Len(DigitsOf(arg)) >= 9
            mtn == /\ Len(LocalDigits(arg)) >= 2
                   /\ LocalDigits(arg)[1] = "6"
                   /\ LocalDigits(arg)[2] \in {"5", "7", "8"}
        IN  /\ out.result.isValid = (enough /\ mtn)
            /\ ~out.result.isValid =>
                  /\ out.result.error # <<>>
                  /\ out.result.error = (IF enough THEN MSG_NOT_MTN ELSE MSG_TOO_SHORT)

\* 23767712345 was accepted
C18_ShortLocalNumberAccepted ==
    /\ out.op = "validate"
    /\ arg = <<"2", "3", "7", "6", "7", "7", "1", "2", "3", "4", "5">>
    /\ out.result.isValid

\* p has just been handed its request, or has taken a step of it
Moved(p) == pc'[p] # pc[p] \/ req'[p] # req[p] \/ served' # served

\* C19: a request to initiate, poll or refund whose bearer token was not
\* verified is answered 401 at once and nothing is written; a refund request of
\* a requester whose role is neither admin nor both is answered 403 at once and
\* nothing is written; mtn_refunds changes only by one new record with status
\* PENDING_MANUAL, added for a verified requester whose role is admin or both;
\* and no step of a refund request writes anything else.
C19_OnlyVerifiedAndAdminWrite ==
    [][/\ \A p \in Procs :
            /\ (/\ req'[p].op \in {"initiate", "status", "refund"}
                /\ ~req'[p].authed
                /\ Moved(p))
               => /\ pc'[p] = "done"
                  /\ res'[p].http = 401
                  /\ <<store, cachedToken, nextRef>>' = <<store, cachedToken, nextRef>>
            /\ (/\ req'[p].op = "refund"
                /\ req'[p].authed
                /\ users[req'[p].uid].role \notin {"admin", "both"}
                /\ Moved(p))
               => /\ pc'[p] = "done"
                  /\ res'[p].http = 403
                  /\ store' = store
            /\ (req'[p].op = "refund" /\ Moved(p))
               => <<campaigns, transactions, notifications, cachedToken, nextRef>>'
                     = <<campaigns, transactions, notifications, cachedToken, nextRef>>
       /\ refunds' # refunds =>
            \E p \in Procs, record \in BagToSet(refunds') :
                /\ req[p].op = "refund"
                /\ req[p].authed
                /\ users[req[p].uid].role \in {"admin", "both"}
                /\ record.status = "PENDING_MANUAL"
                /\ record.requestedBy = req[p].uid
                /\ record.originalReferenceId = req[p].body.referenceId
                /\ refunds' = refunds (+) SetToBag({record})]_vars

\* a refund request of a requester with role both was recorded, and then the
\* same request of an advertiser was answered 403
C19_RefundRecordedThenRefused ==
    \E p \in Procs :
        /\ pc[p] = "done" /\ req[p].op = "refund" /\ req[p].authed
        /\ users[req[p].uid].role = "user"
        /\ res[p].http = 403
        /\ BagCardinality(refunds) = 1
        /\ \E record \in BagToSet(refunds) :
             /\ record.requestedBy = "u3"
             /\ record.status = "PENDING_MANUAL"
        /\ transactions = <<>>
        /\ notifications = EmptyBag

\* handler p holds a SUCCESSFUL status of a transaction row that was created
\* for another campaign than c
HoldsSuccessOfOther(p, c) ==
    \/ /\ req[p].op = "status"
       /\ loc[p].normalizedStatus # Absent
       /\ loc[p].normalizedStatus.status = "SUCCESSFUL"
       /\ loc[p].referenceId \in DOMAIN transactions
       /\ transactions[loc[p].referenceId].campaignId # c
    \/ /\ req[p].op = "callback"
       /\ NormalizedStatus(req[p].body.status) = "SUCCESSFUL"
       /\ CallbackReference(req[p].body) \in DOMAIN transactions
       /\ transactions[CallbackReference(req[p].body)].campaignId # c

\* C20: no poll and no callback moves a campaign to scheduled on the strength
\* of a SUCCESSFUL status of a transaction that was initiated for a different
\* campaign (transaction.campaignId differs from the campaign's id), whatever
\* campaignId the caller of a poll supplies.
C20_ScheduledOnlyByOwnTransaction ==
    [][\A c \in Campaigns, p \in Procs :
          (/\ campaigns[c].status # "scheduled"
           /\ campaigns'[c].status = "scheduled"
           /\ pc'[p] # pc[p])
             => ~HoldsSuccessOfOther(p, c)]_vars

\* initiatePayment linked campaign c and returned id to its caller (line 317
\* returns the id that line 308 wrote to the campaign as ynoteMessageId)
ReturnedByInitiate(c, id) ==
    /\ HasId(campaigns[c].mtnReferenceId)
    /\ campaigns[c].ynoteMessageId = id

\* C21: a poll answered 200 for the id that initiatePayment returned has
\* written the gateway's status answer to the transaction row that
\* initiatePayment persisted, also when the gateway named the payment itself.
C21_ReturnedIdDesignatesRow ==
    \A p \in Procs, c \in Campaigns :
        (/\ pc[p] = "done" /\ req[p].op = "status" /\ res[p].http = 200
         /\ ReturnedByInitiate(c, req[p].body.referenceId))
        => /\ campaigns[c].mtnReferenceId \in DOMAIN transactions
           /\ transactions[campaigns[c].mtnReferenceId].ynoteStatusResponse # Absent

\* C22: once a transaction row's status is SUCCESSFUL, no step of a poll or of
\* a callback changes it to anything else.
C22_SuccessfulIsAbsorbing ==
    [][\A r \in DOMAIN transactions :
          transactions[r].status = "SUCCESSFUL"
             => transactions'[r].status = "SUCCESSFUL"]_vars

\* C23: a campaign that a poll or a callback moved to scheduled (paidAt is
\* set) has mtnPaymentStatus SUCCESSFUL.
C23_ScheduledKeepsSuccessful ==
    \A c \in Campaigns :
        (campaigns[c].status = "scheduled" /\ campaigns[c].paidAt # 0)
           => campaigns[c].mtnPaymentStatus = "SUCCESSFUL"

\* C24: a campaign whose mtnReferenceId is set names a transaction row that
\* exists, whose campaignId is that campaign and whose userId is the
\* campaign's owner.
C24_LinkedCampaignHasItsRow ==
    \A c \in Campaigns :
        HasId(campaigns[c].mtnReferenceId) =>
            /\ campaigns[c].mtnReferenceId \in DOMAIN transactions
            /\ transactions[campaigns[c].mtnReferenceId].campaignId = c
            /\ transactions[campaigns[c].mtnReferenceId].userId = campaigns[c].userId

\* a campaign is linked to its row although the gateway named the payment
\* itself, while another initiatePayment call was refused
C24_LinkedUnderVendorIdSeen ==
    \E p, q \in Procs, c \in Campaigns :
        /\ HasId(campaigns[c].mtnReferenceId)
        /\ campaigns[c].ynoteMessageId # campaigns[c].mtnReferenceId
        /\ pc[p] = "done" /\ req[p].op = "initiate" /\ res[p].http = 200
        /\ p # q /\ pc[q] = "done" /\ req[q].op = "initiate" /\ res[q].http # 200

\* C25: no step of a callback handler adds a notification that the store
\* already holds: a callback delivered again for the same reference id with
\* the same status creates no second notification.
C25_RedeliveryAddsNoNotification ==
    [][\A p \in Procs :
          (req[p].op = "callback" /\ pc'[p] # pc[p])
             => \A n \in BagToSet(notifications') :
                   BagIn(n, notifications)
                      => CopiesIn(n, notifications') = CopiesIn(n, notifications)]_vars

\* expires_in of the answer that issued token (0: none given)
LifetimeOf(token) == token[2]

\* p's token call has just been answered
TokenAnswered(p) == pc[p] = "tok_fetch" /\ pc'[p] = "st_post"

\* p's token call has just failed
TokenFailed(p) == pc[p] = "tok_fetch" /\ pc'[p] = "done"

\* C26 (as stated): the expiry written to the token cache is never later than
\* the time the token was issued plus its expires_in, and a failed token call
\* raises the authentication error and leaves the cache slot as it was.
C26_StoredExpiryWithinLifetime ==
    [][\A p \in Procs :
          /\ TokenAnswered(p) =>
                cachedToken'.expiresAt <= now + LifetimeOf(cachedToken'.token) * 1000
          /\ TokenFailed(p) =>
                /\ res'[p].error = MSG_AUTH_YNOTE
                /\ cachedToken' = cachedToken]_vars

\* C26 (amended): when the token endpoint's answer gives an expires_in, the
\* expiry written to the token cache is the time the call read before its
\* request plus expires_in, hence never later than the time the token was
\* issued plus expires_in; when the answer gives none, the expiry written is
\* the time read plus 3600 seconds. The cache slot changes in no other step,
\* and a failed token call raises the authentication error and leaves the
\* cache slot as it was.
C26_StoredExpiryWithinGivenLifetime ==
    [][/\ \A p \in Procs :
            /\ TokenAnswered(p) =>
                  /\ loc[p].now <= now
                  /\ cachedToken'.token = loc'[p].accessToken
                  /\ IF LifetimeOf(cachedToken'.token) # 0
                     THEN /\ cachedToken'.expiresAt
                                = loc[p].now + LifetimeOf(cachedToken'.token) * 1000
                          /\ cachedToken'.expiresAt
                                <= now + LifetimeOf(cachedToken'.token) * 1000
                     ELSE cachedToken'.expiresAt = loc[p].now + 3600 * 1000
            /\ TokenFailed(p) =>
                  /\ res'[p].error = MSG_AUTH_YNOTE
                  /\ res'[p].http = 500
                  /\ cachedToken' = cachedToken
       /\ cachedToken' # cachedToken => \E p \in Procs : TokenAnswered(p)]_vars

\* a call that read the clock at 0 was answered after the clock had moved on,
\* with a token of 90 seconds: the slot says 90 seconds from 0; and another
\* call's fetch has failed since without touching the slot
C26_EarlyExpiryAndFailureSeen ==
    \E p, q \in Procs :
        /\ p # q
        /\ pc[p] = "st_post" /\ loc[p].now = 0 /\ now > 0
        /\ loc[p].accessToken = IssuedToken(90)
        /\ cachedToken = [present |-> TRUE, token |-> IssuedToken(90), expiresAt |-> 90 * 1000]
        /\ pc[q] = "done" /\ res[q].error = MSG_AUTH_YNOTE

\* C27: for every phone that validateMtnPhoneNumber accepts, formatPhoneNumber
\* returns 237 followed by a national number that begins with 65, 67 or 68.
C27_AcceptedPhoneFormatsToMtnMsisdn ==
    (out.op = "format" /\ validateMtnPhoneNumber(arg).isValid) =>
        /\ Len(out.result) >= 5
        /\ SubSeq(out.result, 1, 3) = <<"2", "3", "7">>
        /\ SubSeq(out.result, 4, 5) \in {<<"6", "5">>, <<"6", "7">>, <<"6", "8">>}

====
